---- MODULE Spec2Model ----
(***************************************************************************)
(* Temporal persistence / debounce engine (SleepingDetector) and reliable  *)
(* delivery (WebhookSender) of sam3-lab.                                   *)
(*                                                                         *)
(* Timestamps are whole seconds.  Scores are hundredths (0.3 is 30).       *)
(* The comparison  len >= (persistence_seconds / check_interval) * 0.7     *)
(* is done in integers:  10 * len * check_interval >= 7 * persistence.     *)
(***************************************************************************)
EXTENDS Integers, Sequences, FiniteSets, TLC

VARIABLES
    persistence_seconds,   \* SleepingDetector.persistence_seconds
    check_interval,        \* SleepingDetector.check_interval
    detections_history,    \* SleepingDetector.detections_history
    last_check_time,       \* SleepingDetector.last_check_time
    alert_cooldown_until,  \* SleepingDetector.alert_cooldown_until
    calls,                 \* number of detect_sleeping_person calls made
    callTs,                \* timestamp argument of the most recent call
    frame,                 \* frame argument of the most recent call
    ret,                   \* value returned by the most recent call
    fires,                 \* timestamps of the calls that returned an alert
    seen_above,            \* some call's frame held a score above the threshold
    all_qualifying,        \* every call's frame so far held a qualifying detection
    retry_attempts,        \* WebhookSender.retry_attempts
    send_pc,               \* position inside send_alert
    attempt,               \* loop variable of send_alert
    wire,                  \* what send_alert did so far: posts and sleeps
    send_ret,              \* value returned by send_alert
    send_raised,           \* exception that left send_alert, if any
    main_pc,               \* position inside process_frame of main
    sent,                  \* timestamps of the alerts handed to send_alert
    run_pc,                \* position of the run: main up to and inside process_stream
    handler_installed,     \* signal.signal(SIGINT, signal_handler) was executed
    shutdown_requested,    \* main.shutdown_requested
    probe_wire,            \* what test_connection posted and got
    probe_ret,             \* value returned by test_connection
    max_frames,            \* argument of process_stream
    frame_count,           \* local frame_count of process_stream
    disconnects,           \* number of disconnect calls made by process_stream
    exit_cause,            \* why the run ended
    logged                 \* alert log files written: timestamp and delivery result

dvars == <<persistence_seconds, check_interval, detections_history,
           last_check_time, alert_cooldown_until, calls, callTs, frame, ret,
           fires, seen_above, all_qualifying>>
svars == <<retry_attempts, send_pc, attempt, wire, send_ret, send_raised>>
mvars == <<main_pc, sent>>
rvars == <<run_pc, handler_installed, shutdown_requested, probe_wire,
           probe_ret, max_frames, frame_count, disconnects, exit_cause, logged>>
vars == <<dvars, svars, mvars, rvars>>

----------------------------------------------------------------------------
(* Bounds of the model *)

MaxCalls == 5
MaxRetryAttempts == 3

(* Program constants *)

None == -1
confidence_threshold == 30
AlertCooldownSeconds == 30
HistoryRetentionSeconds == 60

----------------------------------------------------------------------------
(* Inputs *)

\* (persistence_seconds, check_interval_seconds) of the constructed detector
Configs == {<<10, 2>>, <<2, 2>>, <<4, 1>>}

\* how far the producer's timestamp moves from one frame to the next
TimeDeltas == {-2, 0, 1, 2, 30}

sleep_prompts == <<"person sleeping", "person lying down", "person laying down">>

NoBox == <<>>
WideBox == <<0, 0, 3, 2>>
EdgeBox == <<0, 0, 6, 5>>
TallBox == <<0, 0, 2, 3>>

Det(p, s, b) == [prompt |-> sleep_prompts[p], score |-> s, box |-> b]

\* the detections SAM3 yields for a frame, in prompt order; raises: the
\* processor throws while the frame is processed
Frames ==
    { [raises |-> FALSE, dets |-> <<>>],
      [raises |-> FALSE, dets |-> <<Det(1, 30, WideBox)>>],
      [raises |-> FALSE, dets |-> <<Det(1, 50, WideBox)>>],
      [raises |-> FALSE, dets |-> <<Det(2, 80, WideBox)>>],
      [raises |-> FALSE, dets |-> <<Det(1, 50, TallBox)>>],
      [raises |-> FALSE, dets |-> <<Det(1, 50, EdgeBox)>>],
      [raises |-> FALSE, dets |-> <<Det(1, 50, NoBox)>>],
      [raises |-> FALSE, dets |-> <<Det(1, 50, WideBox), Det(2, 80, TallBox)>>],
      [raises |-> TRUE,  dets |-> <<>>] }

NoFrame == [raises |-> FALSE, dets |-> <<>>]
NoAlert == [what |-> "None"]

\* the call does not return: an exception leaves detect_sleeping_person
Raised == [what |-> "raise"]

----------------------------------------------------------------------------
(* SleepingDetector *)

Abs(x) == IF x < 0 THEN -x ELSE x

\* variant: the interval is not applied, any later timestamp passes
should_check_frame_any_later(current_time) ==
    IF last_check_time = None
    THEN TRUE
    ELSE current_time - last_check_time > 0

\* variant: the distance to the last check counts, whatever its sign
should_check_frame_abs(current_time) ==
    IF last_check_time = None
    THEN TRUE
    ELSE Abs(current_time - last_check_time) >= check_interval

should_check_frame(current_time) ==
    IF last_check_time = None
    THEN TRUE
    ELSE current_time - last_check_time >= check_interval

\* the scan of lines 81-105: the first detection with the highest score
\* above the threshold, or NoBest
NoBest == [prompt |-> "", score |-> 0, box |-> NoBox]

\* variant: a score equal to the threshold is accepted
Improves_at_threshold(score, best_score) ==
    score >= confidence_threshold /\ score > best_score

\* line 97
Improves(score, best_score) ==
    score > confidence_threshold /\ score > best_score

RECURSIVE ScanDetections(_, _, _)
ScanDetections(dets, i, best) ==
    IF i > Len(dets)
    THEN best
    ELSE ScanDetections(dets, i + 1,
            IF Improves(dets[i].score, best.score)
            THEN dets[i]
            ELSE best)

\* variant: the first detection above the threshold, not the highest
best_detection_first(dets) ==
    IF \E i \in DOMAIN dets : dets[i].score > confidence_threshold
    THEN dets[CHOOSE i \in DOMAIN dets :
                /\ dets[i].score > confidence_threshold
                /\ \A j \in DOMAIN dets :
                      dets[j].score > confidence_threshold => i <= j]
    ELSE NoBest

best_detection(dets) == ScanDetections(dets, 1, NoBest)

\* variant: every box with a height is horizontal
_analyze_orientation_no_ratio(box) ==
    LET height == Abs(box[4] - box[2])
    IN  IF height > 0
        THEN "horizontal"
        ELSE "vertical"

_analyze_orientation(box) ==
    LET width == Abs(box[3] - box[1])
        height == Abs(box[4] - box[2])
    IN  IF height > 0 /\ 10 * width > 12 * height
        THEN "horizontal"
        ELSE "vertical"

_add_to_history(history, detection) ==
    LET cutoff_time == detection.timestamp - HistoryRetentionSeconds
        kept(d) == d.timestamp > cutoff_time
    IN  SelectSeq(Append(history, detection), kept)

\* variant: the persistence cutoff is not applied
recent_detections_no_cutoff(history, current_time) ==
    LET isRecent(d) == d.orientation = "horizontal"
    IN  SelectSeq(history, isRecent)

recent_detections(history, current_time) ==
    LET cutoff_time == current_time - persistence_seconds
        isRecent(d) == d.timestamp > cutoff_time /\ d.orientation = "horizontal"
    IN  SelectSeq(history, isRecent)

\* variant: the factor 0.7 left out
EnoughRecent_no_factor(n) ==
    IF check_interval > 0
    THEN n * check_interval >= persistence_seconds
    ELSE n * check_interval <= persistence_seconds

\* len(recent) >= (persistence_seconds / check_interval) * 0.7
EnoughRecent(n) ==
    IF check_interval > 0
    THEN 10 * n * check_interval >= 7 * persistence_seconds
    ELSE 10 * n * check_interval <= 7 * persistence_seconds

\* "raise" stands for the ZeroDivisionError of line 175
_check_persistence(history, current_time) ==
    IF Len(history) < 2
    THEN "False"
    ELSE IF check_interval = 0
         THEN "raise"
         ELSE IF EnoughRecent(Len(recent_detections(history, current_time)))
              THEN "True"
              ELSE "False"

_create_alert(history, detection, timestamp) ==
    [ what |-> "Pessoa dormindo detectada",
      when |-> timestamp,
      bounding_box |-> detection.box,
      orientation |-> detection.orientation,
      prompt_used |-> detection.prompt,
      confidence_score |-> detection.score,
      detection_count_in_period |-> Len(history),
      persistence_seconds |-> persistence_seconds ]

\* variant: the comparison of line 71 reversed
InCooldown_reversed(timestamp) ==
    alert_cooldown_until # None /\ timestamp > alert_cooldown_until

\* line 71
InCooldown(timestamp) ==
    alert_cooldown_until # None /\ timestamp < alert_cooldown_until

\* variant: the timedelta of line 121 left out
CooldownEnd_no_delta(timestamp) == timestamp

\* line 121
CooldownEnd(timestamp) == timestamp + AlertCooldownSeconds

\* variant: no handler around the processing of the frame
except_Exception_absent(raised) == FALSE

\* the handler of line 126 takes every Exception raised inside the try of
\* line 75
except_Exception(raised) == raised

\* the frame yields a sample for the history: a best detection with a
\* horizontal box (lines 107-114)
Qualifies(fr) ==
    /\ ~fr.raises
    /\ LET best == best_detection(fr.dets) IN
          /\ best # NoBest
          /\ best.box # NoBox
          /\ _analyze_orientation(best.box) = "horizontal"

\* the state a call leaves behind and the value it returns
DetectOutcome(fr, timestamp) ==
    LET same == [ lct |-> last_check_time, hist |-> detections_history,
                  cool |-> alert_cooldown_until, out |-> NoAlert ]
    IN
    IF ~should_check_frame(timestamp)
    THEN same
    ELSE LET gated == [same EXCEPT !.lct = timestamp] IN
    IF InCooldown(timestamp)
    THEN gated
    ELSE IF fr.raises
    THEN IF except_Exception(TRUE) THEN gated ELSE [gated EXCEPT !.out = Raised]
    ELSE LET best == best_detection(fr.dets) IN
    IF best = NoBest \/ best.box = NoBox
    THEN gated
    ELSE LET orientation == _analyze_orientation(best.box)
             detection == [ prompt |-> best.prompt, score |-> best.score,
                            box |-> best.box, timestamp |-> timestamp,
                            orientation |-> orientation ]
         IN
    IF orientation # "horizontal"
    THEN gated
    ELSE LET hist == _add_to_history(detections_history, detection)
             added == [gated EXCEPT !.hist = hist]
         IN
    IF _check_persistence(hist, timestamp) = "True"
    THEN [added EXCEPT !.cool = CooldownEnd(timestamp),
                       !.out = _create_alert(hist, detection, timestamp)]
    ELSE IF _check_persistence(hist, timestamp) = "raise" /\ ~except_Exception(TRUE)
    THEN [added EXCEPT !.out = Raised]
    ELSE added

detect_sleeping_person(fr, timestamp) ==
    LET o == DetectOutcome(fr, timestamp) IN
    /\ calls' = calls + 1
    /\ callTs' = timestamp
    /\ frame' = fr
    /\ last_check_time' = o.lct
    /\ detections_history' = o.hist
    /\ alert_cooldown_until' = o.cool
    /\ ret' = o.out
    /\ fires' = IF o.out \notin {NoAlert, Raised} THEN Append(fires, timestamp) ELSE fires
    /\ all_qualifying' = (all_qualifying /\ Qualifies(fr))
    /\ seen_above' = (seen_above \/ \E i \in DOMAIN fr.dets :
                                        fr.dets[i].score > confidence_threshold)
    /\ UNCHANGED <<persistence_seconds, check_interval>>

DetectorInit ==
    /\ detections_history = <<>>
    /\ last_check_time = None
    /\ alert_cooldown_until = None
    /\ calls = 0
    /\ callTs = 0
    /\ frame = NoFrame
    /\ ret = NoAlert
    /\ fires = <<>>
    /\ seen_above = FALSE
    /\ all_qualifying = TRUE

\* WebhookSender(url) with its defaults, send_alert not called
SenderIdle ==
    /\ retry_attempts = 3
    /\ send_pc = "idle"
    /\ attempt = 0
    /\ wire = <<>>
    /\ send_ret = "none"
    /\ send_raised = "none"

\* main before the first frame arrives; no run of main or process_stream
\* is followed
MainIdle ==
    /\ main_pc = "frame"
    /\ sent = <<>>
    /\ run_pc = "idle"
    /\ handler_installed = FALSE
    /\ shutdown_requested = FALSE
    /\ probe_wire = <<>>
    /\ probe_ret = "none"
    /\ max_frames = None
    /\ frame_count = 0
    /\ disconnects = 0
    /\ exit_cause = "none"
    /\ logged = <<>>

Init ==
    /\ \E c \in Configs :
          /\ persistence_seconds = c[1]
          /\ check_interval = c[2]
    /\ DetectorInit
    /\ SenderIdle
    /\ MainIdle

\* the producer hands the detector the next frame (rtsp_stream.py line 65-68)
NextFrame ==
    \E d \in TimeDeltas, fr \in Frames :
        /\ calls < MaxCalls
        /\ callTs + d >= 0
        /\ detect_sleeping_person(fr, IF calls = 0 THEN 0 ELSE callTs + d)
        /\ UNCHANGED <<svars, mvars, rvars>>

Next == NextFrame

Spec == Init /\ [][Next]_vars

----------------------------------------------------------------------------
(* WebhookSender *)

\* what one requests.post can do: answer with a status, or raise
StatusCodes == {200, 201, 202, 204, 500}
Exceptions == {"Timeout", "ConnectionError", "TooManyRedirects"}
Responses ==
    [kind : {"status"}, code : StatusCodes, exc : {"none"}]
        \cup [kind : {"raise"}, code : {0}, exc : Exceptions]

\* variant: every 2xx status is taken as success
IsSuccess_any_2xx(code) == 200 <= code /\ code < 300

\* line 60
IsSuccess(code) == code \in {200, 201, 202}

\* variant: only the two named except clauses, no except Exception
Caught_named_only(exc) ==
    \/ exc = "Timeout"
    \/ exc = "ConnectionError"

\* the except clauses of lines 67-72, in order; every class of Exceptions
\* derives from Exception
Caught(exc) ==
    \/ exc = "Timeout"
    \/ exc = "ConnectionError"
    \/ exc \in Exceptions

\* variant: the sleep also follows the last attempt
ShouldSleep_after_last(n) == n <= retry_attempts

\* line 75
ShouldSleep(n) == n < retry_attempts

\* variant: range(1, self.retry_attempts)
InRange_one_short(n) == 1 <= n /\ n < retry_attempts

\* range(1, self.retry_attempts + 1) holds n
InRange(n) == 1 <= n /\ n < retry_attempts + 1

PostEvent(n, r) == [ev |-> "post", n |-> n, resp |-> r]
SleepEvent(n) == [ev |-> "sleep", n |-> n, resp |-> [kind |-> "none", code |-> 0, exc |-> "none"]]

\* the for statement takes the next value of attempt, or the loop ends and
\* line 80 returns False
LoopNext(n) ==
    IF InRange(n)
    THEN /\ attempt' = n
         /\ send_pc' = "post"
         /\ UNCHANGED send_ret
    ELSE /\ send_pc' = "done"
         /\ send_ret' = "False"
         /\ UNCHANGED attempt

send_alert ==
    /\ send_pc = "idle"
    /\ LoopNext(1)
    /\ UNCHANGED <<retry_attempts, wire, send_raised>>

\* one pass of the try statement, lines 50-72, and the test of line 75
Post(r) ==
    /\ send_pc = "post"
    /\ wire' = Append(wire, PostEvent(attempt, r))
    /\ IF r.kind = "status" /\ IsSuccess(r.code)
       THEN /\ send_pc' = "done"
            /\ send_ret' = "True"
            /\ UNCHANGED <<attempt, send_raised>>
       ELSE IF r.kind = "raise" /\ ~Caught(r.exc)
       THEN /\ send_pc' = "done"
            /\ send_raised' = r.exc
            /\ UNCHANGED <<attempt, send_ret>>
       ELSE IF ShouldSleep(attempt)
       THEN /\ send_pc' = "sleep"
            /\ UNCHANGED <<attempt, send_ret, send_raised>>
       ELSE /\ LoopNext(attempt + 1)
            /\ UNCHANGED send_raised
    /\ UNCHANGED retry_attempts

\* time.sleep(self.retry_delay), line 77, then the next pass of the loop
Sleep ==
    /\ send_pc = "sleep"
    /\ wire' = Append(wire, SleepEvent(attempt))
    /\ LoopNext(attempt + 1)
    /\ UNCHANGED <<retry_attempts, send_raised>>

InitDelivery ==
    /\ persistence_seconds = 10
    /\ check_interval = 2
    /\ DetectorInit
    /\ retry_attempts \in 0..MaxRetryAttempts
    /\ send_pc = "idle"
    /\ attempt = 0
    /\ wire = <<>>
    /\ send_ret = "none"
    /\ send_raised = "none"
    /\ MainIdle

NextDelivery ==
    \/ send_alert /\ UNCHANGED <<dvars, mvars, rvars>>
    \/ (\E r \in Responses : Post(r)) /\ UNCHANGED <<dvars, mvars, rvars>>
    \/ Sleep /\ UNCHANGED <<dvars, mvars, rvars>>

SpecDelivery == InitDelivery /\ [][NextDelivery]_vars

----------------------------------------------------------------------------
(* Properties of the detector, checked under Spec *)

Fired == ret \notin {NoAlert, Raised}

\* the most recent call passed the ingestion gate
PassedGate == calls >= 1 /\ last_check_time = callTs

\* the frame of the most recent call holds a horizontal detection above the
\* threshold and none of a higher score
QualifyingFrame ==
    /\ ~frame.raises
    /\ frame.dets # <<>>
    /\ \A i \in DOMAIN frame.dets :
          /\ frame.dets[i].score > confidence_threshold
          /\ frame.dets[i].box = WideBox

\* number of retained horizontal samples with timestamp > now - persistence
InWindow(now) ==
    Cardinality({ i \in DOMAIN detections_history :
                    /\ detections_history[i].timestamp > now - persistence_seconds
                    /\ detections_history[i].orientation = "horizontal" })

\* ceil(persistence_seconds / check_interval_seconds * 0.7)
RequiredSamples ==
    (7 * persistence_seconds + 10 * check_interval - 1) \div (10 * check_interval)

\* C1: after an alert returned at frame time T, no later call with frame time
\* in [T, T + 30) returns an alert.
C1_CooldownIdempotent ==
    \A i, j \in DOMAIN fires :
        i < j => ~(fires[i] <= fires[j] /\ fires[j] < fires[i] + AlertCooldownSeconds)

\* C1 case: a second alert after the cooldown of the first, and in between
\* nothing fired
C1_Witness ==
    /\ Len(fires) = 2
    /\ fires[2] >= fires[1] + AlertCooldownSeconds
    /\ calls >= 4

\* C1 case: a qualifying frame passes the gate inside the cooldown and is
\* answered with no alert
C1_SuppressedReached ==
    /\ Len(fires) = 1
    /\ PassedGate
    /\ QualifyingFrame
    /\ callTs > fires[1]
    /\ callTs < fires[1] + AlertCooldownSeconds
    /\ ~Fired

\* C2: while every score of every frame so far is at or below
\* confidence_threshold, no call has returned an alert and the history is
\* empty.
C2_LowScoresNeverFire ==
    ~seen_above => (detections_history = <<>> /\ fires = <<>> /\ ~Fired)

\* C2 case: frames whose score equals the threshold passed the gate
C2_Witness ==
    /\ ~seen_above
    /\ calls >= 3
    /\ PassedGate
    /\ callTs >= 30
    /\ frame.dets # <<>>
    /\ frame.dets[1].score = confidence_threshold

\* C3: a call returns an alert only when at least
\* ceil(persistence_seconds / check_interval_seconds * 0.7) horizontal samples
\* have timestamp > now - persistence_seconds; with persistence 10, interval 2
\* and samples only at t = 0, 2, 4 the call at t = 8 returns none.
C3_FireNeedsRequiredSamples ==
    /\ Fired => InWindow(callTs) >= RequiredSamples
    /\ ( /\ persistence_seconds = 10
         /\ check_interval = 2
         /\ callTs = 8
         /\ Len(detections_history) = 3
         /\ \A i \in 1..3 : detections_history[i].timestamp = 2 * (i - 1) )
       => ~Fired

\* C3 case: an alert with exactly the required number of samples, 4
C3_Witness ==
    /\ Fired
    /\ persistence_seconds = 10
    /\ check_interval = 2
    /\ RequiredSamples = 4
    /\ InWindow(callTs) = 4

\* C3 case: three samples at 0, 2, 4 and a gated call at t = 8
C3_ScenarioBReached ==
    /\ persistence_seconds = 10
    /\ check_interval = 2
    /\ callTs = 8
    /\ PassedGate
    /\ Len(detections_history) = 3
    /\ \A i \in 1..3 : detections_history[i].timestamp = 2 * (i - 1)
    /\ ~Fired

\* C4: a call returns an alert only when at least 2 horizontal samples lie
\* inside the persistence window.
C4_TwoSamplesInWindow ==
    Fired => InWindow(callTs) >= 2

\* C5: a call with now - last_check_time < check_interval returns no alert and
\* leaves last_check_time, the history and alert_cooldown_until unchanged.
C5_ThrottledCallChangesNothing ==
    [][ ( /\ calls' = calls + 1
          /\ last_check_time # None
          /\ callTs' - last_check_time < check_interval )
        => ( /\ ret' = NoAlert
             /\ last_check_time' = last_check_time
             /\ detections_history' = detections_history
             /\ alert_cooldown_until' = alert_cooldown_until ) ]_vars

\* C5 case: a qualifying frame arrived one second after a check, with a
\* history and a cooldown in place
C5_Witness ==
    /\ calls >= 3
    /\ last_check_time # None
    /\ callTs = last_check_time + 1
    /\ check_interval = 2
    /\ QualifyingFrame
    /\ detections_history # <<>>
    /\ alert_cooldown_until # None

\* C6: after a call that passed the gate at time now, the history holds no
\* sample with timestamp <= now - 60.
C6_NoStaleSampleAfterGate ==
    PassedGate =>
        \A i \in DOMAIN detections_history :
            detections_history[i].timestamp > callTs - HistoryRetentionSeconds

----------------------------------------------------------------------------
(* Properties of send_alert, checked under SpecDelivery *)

IsPost(e) == e.ev = "post"
IsSleep(e) == e.ev = "sleep"
Accepted(e) ==
    IsPost(e) /\ e.resp.kind = "status" /\ e.resp.code \in {200, 201, 202}

NPosts == Len(SelectSeq(wire, IsPost))
NSleeps == Len(SelectSeq(wire, IsSleep))

\* C7: when every attempt fails, send_alert makes exactly retry_attempts
\* POSTs and returns False; it ends only by returning True or False.
C7_RetryBound ==
    send_pc = "done" =>
        /\ send_ret \in {"True", "False"}
        /\ (\A i \in DOMAIN wire : ~Accepted(wire[i])) =>
              (NPosts = retry_attempts /\ send_ret = "False")

\* C7 case: three failed attempts of three, one of each kind of failure
C7_Witness ==
    /\ send_pc = "done"
    /\ retry_attempts = 3
    /\ NPosts = 3
    /\ send_ret = "False"
    /\ wire[1].resp.code = 500
    /\ wire[3].resp.exc = "ConnectionError"
    /\ wire[5].resp.exc = "Timeout"

\* C8: send_alert returns True exactly when one of its at most
\* retry_attempts POSTs was answered 200, 201 or 202, and that POST is its
\* last action.
C8_SuccessIffAccepted ==
    /\ NPosts <= retry_attempts
    /\ \A i \in DOMAIN wire : Accepted(wire[i]) => (i = Len(wire) /\ send_pc = "done")
    /\ send_pc = "done" =>
          (send_ret = "True" <=> \E i \in DOMAIN wire : Accepted(wire[i]))
    /\ send_ret = "True" => send_pc = "done"

\* C8 case: 500, 500, 200 with retry_attempts = 3
C8_Witness ==
    /\ send_pc = "done"
    /\ retry_attempts = 3
    /\ NPosts = 3
    /\ wire[1].resp.code = 500
    /\ wire[3].resp.code = 500
    /\ wire[5].resp.code = 200
    /\ send_ret = "True"

\* C9: POSTs and sleeps alternate, beginning and ending with a POST: a
\* delivery of k >= 1 attempts holds exactly k - 1 sleeps, each between two
\* attempts, and none after a successful attempt.
C9_SleepsBetweenAttempts ==
    /\ \A i \in DOMAIN wire :
          wire[i].ev = (IF i % 2 = 1 THEN "post" ELSE "sleep")
    /\ (send_pc = "done" /\ NPosts >= 1) => NSleeps = NPosts - 1
    /\ send_pc = "post" => NSleeps = NPosts
    /\ \A i \in DOMAIN wire : Accepted(wire[i]) => i = Len(wire)

\* C9 case: a delivery of three failed attempts with its two sleeps
C9_Witness ==
    /\ send_pc = "done"
    /\ NPosts = 3
    /\ NSleeps = 2
    /\ send_ret = "False"

\* C10: no exception raised by a POST leaves send_alert: the attempt counts
\* as failed, and send_alert ends by returning True or False.
C10_NoExceptionEscapes ==
    /\ send_raised = "none"
    /\ send_pc = "done" => send_ret \in {"True", "False"}
    /\ \A i \in DOMAIN wire :
          wire[i].resp.kind = "raise" =>
              IF i < Len(wire)
              THEN IsSleep(wire[i + 1])
              ELSE \/ send_pc = "sleep"
                   \/ send_pc = "done" /\ send_ret = "False"
                                       /\ wire[i].n = retry_attempts

\* C10 case: a raise of each kind, then False
C10_Witness ==
    /\ send_pc = "done"
    /\ send_ret = "False"
    /\ \A x \in Exceptions : \E i \in DOMAIN wire : wire[i].resp.exc = x

----------------------------------------------------------------------------
(* The detector constructed with any interval: __init__ (lines 28-31) stores
   check_interval_seconds as given *)

AllConfigs == Configs \cup {<<10, 0>>, <<2, -2>>}

InitAnyConfig ==
    /\ \E c \in AllConfigs :
          /\ persistence_seconds = c[1]
          /\ check_interval = c[2]
    /\ DetectorInit
    /\ SenderIdle
    /\ MainIdle

SpecAnyConfig == InitAnyConfig /\ [][Next]_vars

----------------------------------------------------------------------------
(* Further properties of the detector *)

\* the highest score among the horizontal samples inside the persistence
\* window of the most recent call
InWindowScores ==
    { detections_history[i].score : i \in
        { j \in DOMAIN detections_history :
            /\ detections_history[j].timestamp > callTs - persistence_seconds
            /\ detections_history[j].orientation = "horizontal" } }

\* C13: when a call has returned an alert at time now, alert_cooldown_until
\* is now + 30, so the cooldown test holds for a call made right after; after
\* any alert the cooldown is set to 30 s past the latest one.
C13_CooldownSetOnFire ==
    /\ Fired => ( /\ alert_cooldown_until = callTs + AlertCooldownSeconds
                  /\ callTs < alert_cooldown_until )
    /\ fires # <<>> =>
          alert_cooldown_until = fires[Len(fires)] + AlertCooldownSeconds

\* C13 case: the second alert of a detector has just been returned
C13_Witness ==
    /\ Fired
    /\ Len(fires) = 2
    /\ alert_cooldown_until = callTs + AlertCooldownSeconds

\* C15: a qualifying frame that passes the gate is appended to the history,
\* whether or not the cooldown is active.
C15_AppendedDespiteCooldown ==
    [][ ( /\ calls' = calls + 1
          /\ (last_check_time = None \/ callTs' - last_check_time >= check_interval)
          /\ Qualifies(frame') )
        => \E i \in DOMAIN detections_history' :
                detections_history'[i].timestamp = callTs' ]_vars

\* C17: the score carried by an alert is the highest score among the
\* horizontal samples inside the persistence window.
C17_AlertCarriesBestOfWindow ==
    Fired => \A sc \in InWindowScores : ret.confidence_score >= sc

\* C18: no detector with check_interval <= 0 ever processes a frame.
C18_NonPositiveIntervalRejected ==
    check_interval <= 0 => calls = 0

\* C19: a call whose frame makes the processor raise returns no alert and
\* leaves the history and alert_cooldown_until as they were.
C19_ProcessorErrorSwallowed ==
    [][ (calls' = calls + 1 /\ frame'.raises)
        => ( /\ ret' = NoAlert
             /\ detections_history' = detections_history
             /\ alert_cooldown_until' = alert_cooldown_until ) ]_vars

\* C19 case: the second call, 30 s after an inserted sample, passes the gate
\* outside any cooldown and its processor raises
C19_Witness ==
    /\ calls = 2
    /\ callTs = 30
    /\ frame.raises
    /\ last_check_time = 30
    /\ Len(detections_history) = 1
    /\ ret = NoAlert

\* C20: the history is ordered by non-decreasing timestamp.
C20_HistoryOrdered ==
    \A i, j \in DOMAIN detections_history :
        i < j => detections_history[i].timestamp <= detections_history[j].timestamp

----------------------------------------------------------------------------
(* One detector with the default persistence 10 and interval 2, called once
   per check interval or a second later, so that every call passes the gate *)

MaxScenarioTime == 32

ScenarioStarts == {-6, 0}
ScenarioDeltas == {2, 3}
ScenarioFrames == {fr \in Frames : Qualifies(fr)}

InitScenario ==
    /\ persistence_seconds = 10
    /\ check_interval = 2
    /\ DetectorInit
    /\ SenderIdle
    /\ MainIdle

NextScenario ==
    \E s \in ScenarioStarts, d \in ScenarioDeltas, fr \in ScenarioFrames :
        LET timestamp == IF calls = 0 THEN s ELSE callTs + d IN
        /\ timestamp <= MaxScenarioTime
        /\ detect_sleeping_person(fr, timestamp)
        /\ UNCHANGED <<svars, mvars, rvars>>

SpecScenario == InitScenario /\ [][NextScenario]_vars

\* Calls are at least 2 s apart, so the fourth call is at t = 6 and the fifth
\* at t = 8 only when the first was at t = 0 and every step was 2 s.

\* C14 as stated: after one qualifying sample per call at t = 0, 2, 4, 6, 8
\* the call at t = 8 returns an alert.
C14_FireAtEight ==
    (all_qualifying /\ calls = 5 /\ callTs = 8) => Fired

\* C14: with one qualifying sample per call at t = 0, 2, 4, 6, 8 the call at
\* t = 6 returns the alert (4 samples, 4 required) and the call at t = 8
\* returns none, being inside the cooldown that ends at t = 36.
C14_FireAtSixThenCooldown ==
    /\ (all_qualifying /\ calls = 4 /\ callTs = 6) => Fired
    /\ (all_qualifying /\ calls = 5 /\ callTs = 8) =>
          (~Fired /\ fires = <<6>> /\ alert_cooldown_until = 36)

\* C14 case: the five calls are made
C14_Witness ==
    /\ all_qualifying
    /\ calls = 5
    /\ callTs = 8
    /\ fires = <<6>>

\* C16: after an alert at t = 0 and a qualifying sample at every later call,
\* one call per check interval, the call at t = 31 returns an alert.
C16_FireAgainAtThirtyOne ==
    (all_qualifying /\ fires # <<>> /\ fires[1] = 0 /\ callTs = 31) => Fired

----------------------------------------------------------------------------
(* main: process_frame is the callback RTSPStream.process_stream calls for
   every frame it reads; one detector, one WebhookSender *)

MaxMainCalls == 4

\* variant: send_alert is called whatever the detector returned
ShouldSend_always(alert) == TRUE

\* line 124, if alert: ; an exception of the detector skips to line 141
ShouldSend(alert) == alert # NoAlert /\ alert # Raised

\* lines 110-129: the detector is called and, for an alert, send_alert is
\* entered; the statements after line 129 wait for its return
process_frame(fr, timestamp) ==
    LET alert == DetectOutcome(fr, timestamp).out IN
    /\ main_pc = "frame"
    /\ detect_sleeping_person(fr, timestamp)
    /\ IF ShouldSend(alert)
       THEN /\ send_alert
            /\ sent' = Append(sent, timestamp)
            /\ main_pc' = "sending"
       ELSE UNCHANGED <<svars, mvars>>

\* rtsp_stream.py lines 60-68: get_frame, then callback(frame, timestamp)
ReadFrame ==
    \E d \in TimeDeltas, fr \in Frames :
        /\ calls < MaxMainCalls
        /\ callTs + d >= 0
        /\ process_frame(fr, IF calls = 0 THEN 0 ELSE callTs + d)
        /\ UNCHANGED rvars

\* send_alert returns into line 129; lines 131-139 write the log file and
\* process_frame returns to the stream loop
send_alert_returns ==
    /\ main_pc = "sending"
    /\ send_pc = "done"
    /\ main_pc' = "frame"
    /\ send_pc' = "idle"
    /\ attempt' = 0
    /\ wire' = <<>>
    /\ send_ret' = "none"
    /\ send_raised' = "none"
    /\ UNCHANGED <<dvars, retry_attempts, sent>>

\* what the endpoint does to one post during a run of main
MainResponses ==
    {r \in Responses : r.code \in {0, 200, 500} /\ r.exc \in {"none", "Timeout"}}

InitMain ==
    /\ persistence_seconds = 2
    /\ check_interval = 2
    /\ DetectorInit
    /\ retry_attempts \in 0..MaxRetryAttempts
    /\ send_pc = "idle"
    /\ attempt = 0
    /\ wire = <<>>
    /\ send_ret = "none"
    /\ send_raised = "none"
    /\ MainIdle

NextMain ==
    \/ ReadFrame
    \/ (\E r \in MainResponses : Post(r)) /\ UNCHANGED <<dvars, mvars, rvars>>
    \/ Sleep /\ UNCHANGED <<dvars, mvars, rvars>>
    \/ send_alert_returns /\ UNCHANGED rvars

SpecMain == InitMain /\ [][NextMain]_vars

\* C11: the alerts handed to send_alert are exactly the alerts the detector
\* returned, one call each and in order; a delivery is in progress only for
\* the alert of the most recent frame, and after a frame without alert the
\* sender is idle and has posted nothing.
C11_OneSendPerAlert ==
    /\ sent = fires
    /\ main_pc = "sending" => (Fired /\ sent[Len(sent)] = callTs)
    /\ (calls >= 1 /\ ~Fired) =>
          (main_pc = "frame" /\ send_pc = "idle" /\ wire = <<>>)

\* C11 case: two alerts were delivered and a later frame gave no alert
C11_Witness ==
    /\ Len(sent) = 2
    /\ Len(fires) = 2
    /\ ~Fired
    /\ main_pc = "frame"

\* C12: while a delivery sequence is in progress (an attempt or a sleep is
\* pending) the next frame can still be read and evaluated.
C12_IngestionDuringDelivery ==
    (main_pc = "sending" /\ send_pc \in {"post", "sleep"} /\ calls < MaxMainCalls)
        => ENABLED ReadFrame

----------------------------------------------------------------------------
(* The detector with every non-negative check interval of AllConfigs *)

MaxGateCalls == 4

NonNegativeConfigs == {c \in AllConfigs : c[2] >= 0}

InitNonNegative ==
    /\ \E c \in NonNegativeConfigs :
          /\ persistence_seconds = c[1]
          /\ check_interval = c[2]
    /\ DetectorInit
    /\ SenderIdle
    /\ MainIdle

NextNonNegative ==
    \E d \in TimeDeltas, fr \in Frames :
        /\ calls < MaxGateCalls
        /\ callTs + d >= 0
        /\ detect_sleeping_person(fr, IF calls = 0 THEN 0 ELSE callTs + d)
        /\ UNCHANGED <<svars, mvars, rvars>>

SpecNonNegative == InitNonNegative /\ [][NextNonNegative]_vars

\* C23: with a check interval >= 0, last_check_time never decreases, and a
\* call whose timestamp is earlier than last_check_time returns no alert and
\* changes neither last_check_time nor the history nor the cooldown.
C23_LastCheckTimeMonotone ==
    [][ /\ last_check_time # None => last_check_time' >= last_check_time
        /\ (calls' = calls + 1 /\ last_check_time # None
                /\ callTs' < last_check_time)
             => /\ ret' = NoAlert
                /\ UNCHANGED <<last_check_time, detections_history,
                               alert_cooldown_until>> ]_vars

\* C23 case: with interval 0 a frame older than the last check was dropped
C23_Witness ==
    /\ check_interval = 0
    /\ calls >= 2
    /\ callTs < last_check_time
    /\ ret = NoAlert

\* detection i of the frame is above the threshold and no detection of the
\* frame scores higher
IsTop(fr, i) ==
    /\ fr.dets[i].score > confidence_threshold
    /\ \A j \in DOMAIN fr.dets : fr.dets[j].score <= fr.dets[i].score

\* width > 1.2 * height, for a box given as x1, y1, x2, y2 with x1 <= x2, y1 <= y2
IsWide(box) ==
    /\ box # NoBox
    /\ box[4] - box[2] > 0
    /\ 10 * (box[3] - box[1]) > 12 * (box[4] - box[2])

\* the sample detection i of the frame gives at the timestamp
SampleOf(fr, i, timestamp) ==
    [ prompt |-> fr.dets[i].prompt, score |-> fr.dets[i].score,
      box |-> fr.dets[i].box, timestamp |-> timestamp,
      orientation |-> "horizontal" ]

\* C24: a call returns an alert only if the top detection of its own frame
\* is above the threshold with a wide box, and that sample is the newest of
\* the history when the call returns.
C24_FireNeedsOwnQualifyingSample ==
    Fired =>
        /\ ~frame.raises
        /\ detections_history # <<>>
        /\ \E i \in DOMAIN frame.dets :
              /\ IsTop(frame, i)
              /\ IsWide(frame.dets[i].box)
              /\ detections_history[Len(detections_history)]
                    = SampleOf(frame, i, callTs)
              /\ ret.confidence_score = frame.dets[i].score
              /\ ret.when = callTs

\* C24 case: a second alert, from a frame whose own detection scores 0.8
C24_Witness ==
    /\ Fired
    /\ Len(fires) = 2
    /\ frame.dets[1].score = 80
    /\ detections_history[Len(detections_history)].timestamp = callTs

\* C25: a call adds at most one sample, the one of the top detection of its
\* frame; when the top detection has no wide box, or there is none, the
\* history is left as it was.
C25_OneSampleFromTopDetection ==
    [][ calls' = calls + 1 =>
          /\ Len(detections_history') <= Len(detections_history) + 1
          /\ \A k \in DOMAIN detections_history' :
                \/ \E m \in DOMAIN detections_history :
                       detections_history'[k] = detections_history[m]
                \/ \E i \in DOMAIN frame'.dets :
                       /\ IsTop(frame', i)
                       /\ IsWide(frame'.dets[i].box)
                       /\ detections_history'[k] = SampleOf(frame', i, callTs')
          /\ (~\E i \in DOMAIN frame'.dets :
                   IsTop(frame', i) /\ IsWide(frame'.dets[i].box))
                => detections_history' = detections_history ]_vars

\* C25 case: the frame whose top detection is upright, with a lower wide one,
\* was accepted outside any cooldown and left no sample
C25_Witness ==
    /\ Len(frame.dets) = 2
    /\ PassedGate
    /\ alert_cooldown_until = None
    /\ detections_history # <<>>
    /\ \A k \in DOMAIN detections_history :
          detections_history[k].timestamp # callTs

----------------------------------------------------------------------------
(* One run followed from start to end: either main, from test_connection to
   its return, or process_stream alone with a callback of its caller *)

MaxSystemCalls == 3
MaxFrames == 2

SystemFrames == {NoFrame, [raises |-> FALSE, dets |-> <<Det(1, 50, WideBox)>>]}
SystemDeltas == {2, 30}

\* variant: every 2xx status is taken as success
ProbeSuccess_any_2xx(code) == 200 <= code /\ code < 300

\* webhook_sender.py line 98
ProbeSuccess(code) == code \in {200, 201, 202}

\* webhook_sender.py line 105, except Exception
ProbeCaught(exc) == exc \in Exceptions

\* variant: main returns when the webhook does not answer
AbortOnProbeFailure_fatal(result) == result = "False"

\* main.BACKUP.py lines 93-94 print a warning and go on
AbortOnProbeFailure(result) == FALSE

\* variant: disconnect only follows a break of the loop
finally_disconnect_after_break(cause) == cause \in {"end_of_stream", "max_frames"}

\* rtsp_stream.py lines 82-83: the finally clause runs on every way out
finally_disconnect(cause) == TRUE

\* variant: the log is written only for a delivered alert
ShouldLog_delivered_only(delivered) == delivered = "True"

\* main.BACKUP.py lines 131-139 follow line 129 whatever send_alert returned
ShouldLog(delivered) == TRUE

\* webhook_sender.py lines 82-107, then main.BACKUP.py lines 93-94
test_connection(r) ==
    LET result == IF r.kind = "status"
                  THEN IF ProbeSuccess(r.code) THEN "True" ELSE "False"
                  ELSE IF ProbeCaught(r.exc) THEN "False" ELSE "raised"
    IN
    /\ run_pc = "test_connection"
    /\ probe_wire' = Append(probe_wire, r)
    /\ probe_ret' = result
    /\ IF result = "raised" \/ AbortOnProbeFailure(result)
       THEN /\ run_pc' = "returned"
            /\ exit_cause' = "webhook"
       ELSE /\ run_pc' = "connect"
            /\ UNCHANGED exit_cause
    /\ UNCHANGED <<dvars, svars, mvars, handler_installed, shutdown_requested,
                   max_frames, frame_count, disconnects, logged>>

\* main.BACKUP.py lines 103-107: stream.connect() returns or raises
connect(opened) ==
    /\ run_pc = "connect"
    /\ IF opened
       THEN /\ run_pc' = "get_frame"
            /\ UNCHANGED exit_cause
       ELSE /\ run_pc' = "returned"
            /\ exit_cause' = "connect_failed"
    /\ UNCHANGED <<dvars, svars, mvars, handler_installed, shutdown_requested,
                   probe_wire, probe_ret, max_frames, frame_count, disconnects,
                   logged>>

\* the loop of process_stream is left: finally, disconnect, return
LeaveLoop(cause) ==
    /\ run_pc' = "returned"
    /\ exit_cause' = cause
    /\ disconnects' = IF finally_disconnect(cause)
                      THEN disconnects + 1
                      ELSE disconnects

\* rtsp_stream.py lines 70-78 after the callback returned; counts above
\* MaxFrames are not told apart, no max_frames of the model is larger
AfterCallback ==
    LET counted == IF frame_count < MaxFrames
                   THEN frame_count + 1
                   ELSE frame_count
    IN
    /\ frame_count' = counted
    /\ IF max_frames # None /\ max_frames # 0 /\ counted >= max_frames
       THEN LeaveLoop("max_frames")
       ELSE /\ run_pc' = "sleep"
            /\ UNCHANGED <<exit_cause, disconnects>>

\* rtsp_stream.py lines 60-63: get_frame returns None
end_of_stream ==
    /\ run_pc = "get_frame"
    /\ LeaveLoop("end_of_stream")
    /\ UNCHANGED <<dvars, svars, mvars, handler_installed, shutdown_requested,
                   probe_wire, probe_ret, max_frames, frame_count, logged>>

\* a frame is read and handed to process_frame of main (rtsp_stream.py lines
\* 60-68, main.BACKUP.py lines 110-129)
frame_to_main(d, fr) ==
    /\ run_pc = "get_frame"
    /\ handler_installed
    /\ IF shutdown_requested
       THEN /\ AfterCallback
            /\ UNCHANGED <<dvars, svars, mvars>>
       ELSE /\ calls < MaxSystemCalls
            /\ process_frame(fr, IF calls = 0 THEN 0 ELSE callTs + d)
            /\ IF main_pc' = "sending"
               THEN /\ run_pc' = "callback"
                    /\ UNCHANGED <<frame_count, exit_cause, disconnects>>
               ELSE AfterCallback
    /\ UNCHANGED <<handler_installed, shutdown_requested, probe_wire,
                   probe_ret, max_frames, logged>>

\* a frame is read and handed to the callback of another caller, which
\* returns or raises (rtsp_stream.py lines 60-68)
frame_to_callback(raises) ==
    /\ run_pc = "get_frame"
    /\ ~handler_installed
    /\ IF raises
       THEN /\ LeaveLoop("callback_error")
            /\ UNCHANGED frame_count
       ELSE AfterCallback
    /\ UNCHANGED <<dvars, svars, mvars, handler_installed, shutdown_requested,
                   probe_wire, probe_ret, max_frames, logged>>

\* send_alert works while process_frame waits at line 129
deliver ==
    /\ run_pc = "callback"
    /\ \/ \E r \in MainResponses : Post(r)
       \/ Sleep
    /\ UNCHANGED <<dvars, mvars, rvars>>

\* main.BACKUP.py lines 129-139: send_alert returned, the log file is written,
\* process_frame returns into the loop
write_log ==
    /\ run_pc = "callback"
    /\ send_alert_returns
    /\ logged' = IF ShouldLog(send_ret)
                 THEN Append(logged, [when |-> callTs, delivered |-> send_ret])
                 ELSE logged
    /\ AfterCallback
    /\ UNCHANGED <<handler_installed, shutdown_requested, probe_wire,
                   probe_ret, max_frames>>

\* rtsp_stream.py line 78, then the next pass of while True
sleep_step ==
    /\ run_pc = "sleep"
    /\ run_pc' = "get_frame"
    /\ UNCHANGED <<dvars, svars, mvars, handler_installed, shutdown_requested,
                   probe_wire, probe_ret, max_frames, frame_count, disconnects,
                   exit_cause, logged>>

\* SIGINT with the handler of main.BACKUP.py lines 21-25 installed
signal_handler ==
    /\ handler_installed
    /\ run_pc # "returned"
    /\ ~shutdown_requested
    /\ shutdown_requested' = TRUE
    /\ UNCHANGED <<dvars, svars, mvars, run_pc, handler_installed, probe_wire,
                   probe_ret, max_frames, frame_count, disconnects, exit_cause,
                   logged>>

\* SIGINT with the default handler: KeyboardInterrupt inside the try of
\* process_stream (rtsp_stream.py lines 80-83)
KeyboardInterrupt ==
    /\ ~handler_installed
    /\ run_pc \in {"get_frame", "sleep"}
    /\ LeaveLoop("KeyboardInterrupt")
    /\ UNCHANGED <<dvars, svars, mvars, handler_installed, shutdown_requested,
                   probe_wire, probe_ret, max_frames, frame_count, logged>>

InitSystem ==
    /\ persistence_seconds = 2
    /\ check_interval = 2
    /\ DetectorInit
    /\ SenderIdle
    /\ main_pc = "frame"
    /\ sent = <<>>
    /\ \/ /\ run_pc = "test_connection"
          /\ handler_installed = TRUE
          /\ max_frames = None
       \/ /\ run_pc = "get_frame"
          /\ handler_installed = FALSE
          /\ max_frames \in {None} \cup 0..MaxFrames
    /\ shutdown_requested = FALSE
    /\ probe_wire = <<>>
    /\ probe_ret = "none"
    /\ frame_count = 0
    /\ disconnects = 0
    /\ exit_cause = "none"
    /\ logged = <<>>

\* the steps the program takes by itself while the stream supplies frames
SystemProgress ==
    \/ \E r \in Responses : test_connection(r)
    \/ connect(TRUE)
    \/ \E d \in SystemDeltas, fr \in SystemFrames : frame_to_main(d, fr)
    \/ frame_to_callback(FALSE)
    \/ deliver
    \/ write_log
    \/ sleep_step

NextSystem ==
    \/ SystemProgress
    \/ connect(FALSE)
    \/ frame_to_callback(TRUE)
    \/ end_of_stream
    \/ signal_handler
    \/ KeyboardInterrupt

SpecSystem == InitSystem /\ [][NextSystem]_vars

SpecSystemFair == SpecSystem /\ WF_vars(SystemProgress)

\* C21: once test_connection has returned it made exactly one post, returned
\* True exactly for the statuses 200, 201, 202 and False for every other
\* status and every exception, raised nothing, and main did not end because
\* of its result.
C21_ProbeOncePlainAdvisory ==
    (handler_installed /\ run_pc # "test_connection") =>
        /\ Len(probe_wire) = 1
        /\ probe_ret \in {"True", "False"}
        /\ probe_ret = "True" <=>
              (probe_wire[1].kind = "status"
                  /\ probe_wire[1].code \in {200, 201, 202})
        /\ exit_cause # "webhook"
        /\ run_pc = "connect" => ENABLED connect(TRUE)

\* C21 case: the probe got status 204, and main went on to connect and to
\* process a frame
C21_Witness ==
    /\ probe_wire = <<[kind |-> "status", code |-> 204, exc |-> "none"]>>
    /\ probe_ret = "False"
    /\ calls >= 1
    /\ run_pc = "sleep"

\* C22: after a shutdown request the run eventually ends (process_stream left,
\* stream disconnected, main returned).
C22_ShutdownTerminates ==
    shutdown_requested ~> (run_pc = "returned")

\* C26: a log file is written only when send_alert has returned, with either
\* result, for the alert of the latest call; so the log holds every alert
\* except one still being delivered, in the order they were raised.
C26_LogAfterDelivery ==
    [][ /\ logged' # logged =>
              /\ main_pc = "sending"
              /\ send_pc = "done"
              /\ send_ret \in {"True", "False"}
              /\ logged' = Append(logged, [when |-> callTs,
                                           delivered |-> send_ret])
        /\ Len(logged') = Len(fires') - (IF main_pc' = "sending" THEN 1 ELSE 0)
        /\ \A k \in DOMAIN logged' : logged'[k].when = fires'[k] ]_vars

\* C26 case: the first delivery failed after all attempts, its log was
\* written, and a later alert was delivered and logged
C26_Witness ==
    /\ Len(logged) = 2
    /\ logged[1].delivered = "False"
    /\ logged[2].delivered = "True"
    /\ logged[2].when > logged[1].when

\* C27: every step that leaves the loop of process_stream calls disconnect
\* once, disconnect is called nowhere else, and once it was called the run
\* has returned: no frame is read or counted afterwards.
C27_DisconnectOnEveryExit ==
    [][ /\ (run_pc \in {"get_frame", "callback", "sleep"} /\ run_pc' = "returned")
              => disconnects' = disconnects + 1
        /\ disconnects' # disconnects
              => (run_pc \in {"get_frame", "callback", "sleep"}
                     /\ run_pc' = "returned")
        /\ disconnects' >= 1 => (run_pc' = "returned" /\ disconnects' = 1)
        /\ disconnects >= 1 => UNCHANGED <<frame_count, calls>> ]_vars

\* C27 case: the callback raised on the second frame
C27_Witness ==
    /\ exit_cause = "callback_error"
    /\ frame_count = 1
    /\ disconnects = 1
    /\ run_pc = "returned"

====
